---- MODULE Spec2Model ----
(***************************************************************************)
(* Abelian sandpile: a model of the Sandpile class of                      *)
(* "src/Python OOP/Abelian Sandpile/sandpile.py".                          *)
(*                                                                         *)
(* A Sandpile object is a record (height, width, max_grains,               *)
(* max_iterations, grid); grid maps <<row, col>> (0-based, as numpy        *)
(* indexes it) to a grain count.  run() is modelled step by step: one step *)
(* for the mode test, one per grain drop, one per call of topple (a whole  *)
(* pass: topple receives the arrays np.where returns), one per loop exit.  *)
(* pc is the position: "new" (constructed, run not called yet), "for" (at  *)
(* the head of the for loop of line 84), "inner" (in the while loop of     *)
(* line 92), "while" (at the head of the while loop of line 110), "done"   *)
(* (run returned), "drop_error" (IndexError raised by line 89),            *)
(* "topple_error" (IndexError raised by line 55 or 56), "set_error"        *)
(* (IndexError raised by line 71), "value_error" (ValueError of line 150,  *)
(* caught at line 152).  call is the call made last, with its arguments:   *)
(* <<"set_pile", x, y, value>>, <<"run">> or <<"add">>.                    *)
(***************************************************************************)
EXTENDS Integers, Sequences, FiniteSets, TLC

VARIABLES piles, self, pc, i, iterations, runs, sums, call

vars == <<piles, self, pc, i, iterations, runs, sums, call>>

(***************************************************************************)
(* Bounds of the model.                                                    *)
(***************************************************************************)
MaxValue == 8
MaxSets == 1
MaxTimesteps == 4
MaxRuns == 2
MaxGrain == 8
MaxOperand == 8
MaxAdds == 2
MaxDrive == 4
MaxMix == 4

(***************************************************************************)
(* Program constants: the defaults of __init__.                            *)
(***************************************************************************)
DefaultHeight == 3
DefaultWidth == 3
DefaultGrains == 4
DefaultMaxTimesteps == 1000000

Names == {"a", "b", "result"}

\* Shapes given to the constructor as height/width: square and not square.
Shapes == {<<3, 3>>, <<3, 4>>, <<4, 3>>}

\* Shapes of the grids a caller supplies with grid=...
GridShapes == {<<3, 3>>, <<3, 4>>, <<4, 3>>, <<4, 4>>}

\* Thresholds the constructor is given ("must be divisible by 4").
Thresholds == {4, 8}

(***************************************************************************)
(* numpy helpers.                                                          *)
(***************************************************************************)
Cells(h, w) == (0 .. (h - 1)) \X (0 .. (w - 1))

np_zeros(h, w) == [c \in Cells(h, w) |-> 0]

\* grid.shape[0] and grid.shape[1]
np_rows(g) == Cardinality({c[1] : c \in DOMAIN g})

np_cols(g) == Cardinality({c[2] : c \in DOMAIN g})

np_any(g) == \E c \in DOMAIN g : g[c] # 0

np_max(g) == CHOOSE m \in {g[c] : c \in DOMAIN g} : \A c \in DOMAIN g : g[c] <= m

np_where(g, t) == {c \in DOMAIN g : g[c] >= t}

RECURSIVE SumOver(_, _)
SumOver(g, S) ==
  IF S = {} THEN 0
  ELSE LET c == CHOOSE x \in S : TRUE IN g[c] + SumOver(g, S \ {c})

np_sum(g) == SumOver(g, DOMAIN g)

Border(h, w) == {c \in Cells(h, w) : c[1] = 0 \/ c[1] = h - 1 \/ c[2] = 0 \/ c[2] = w - 1}

Interior(h, w) == Cells(h, w) \ Border(h, w)

(***************************************************************************)
(* __init__                                                                *)
(***************************************************************************)
Sandpile(height, width, grains, max_timesteps) ==
  [height |-> height, width |-> width, max_grains |-> grains,
   max_iterations |-> max_timesteps, grid |-> np_zeros(height, width)]

SandpileFromGrid(g, height, width, grains, max_timesteps) ==
  [height |-> height, width |-> width, max_grains |-> grains,
   max_iterations |-> max_timesteps, grid |-> g]

DefaultPile == Sandpile(DefaultHeight, DefaultWidth, DefaultGrains, DefaultMaxTimesteps)

(***************************************************************************)
(* topple(x, y), called with the coordinate arrays of np.where: S is the   *)
(* set of coordinates.  The four neighbour updates are fancy-indexed +=,   *)
(* one after another; index -1 wraps to the last row/column, index height  *)
(* or width raises IndexError and leaves the earlier lines done.  The      *)
(* indices are checked against the array's own shape.                      *)
(***************************************************************************)
\* Mutant of incr_of: the neighbours lose what they should get (-= incr).
incr_negated(p, c) == 0 - (p.grid[c] \div p.max_grains)

\* Mutant of incr_of: every neighbour gets one grain (incr = 1).
incr_one(p, c) == 1

incr_of(p, c) == p.grid[c] \div p.max_grains

\* Mutant of new_of: the toppled cell is emptied (self.grid[x,y] = 0).
new_zero(p, c) == 0

new_of(p, c) == p.grid[c] % p.max_grains

zero_border(g, h, w) == [c \in DOMAIN g |-> IF c \in Border(h, w) THEN 0 ELSE g[c]]

redistribute(p, S) ==
  LET g == p.grid
      h == np_rows(g)
      w == np_cols(g)
      g1 == [c \in DOMAIN g |-> IF c \in S THEN new_of(p, c) ELSE g[c]]
      up(c) == <<(c[1] + 1) % h, c[2]>>
      left(c) == <<c[1], (c[2] + 1) % w>>
      g2 == [c \in DOMAIN g |-> g1[c] + (IF up(c) \in S THEN incr_of(p, up(c)) ELSE 0)]
      g3 == [c \in DOMAIN g |-> g2[c] + (IF left(c) \in S THEN incr_of(p, left(c)) ELSE 0)]
      rowErr == \E s \in S : s[1] + 1 >= h
      g4 == [c \in DOMAIN g |->
               g3[c] + (IF c[1] >= 1 /\ <<c[1] - 1, c[2]>> \in S
                        THEN incr_of(p, <<c[1] - 1, c[2]>>) ELSE 0)]
      colErr == \E s \in S : s[2] + 1 >= w
      g5 == [c \in DOMAIN g |->
               g4[c] + (IF c[2] >= 1 /\ <<c[1], c[2] - 1>> \in S
                        THEN incr_of(p, <<c[1], c[2] - 1>>) ELSE 0)]
  IN  IF rowErr THEN [grid |-> g3, err |-> TRUE]
      ELSE IF colErr THEN [grid |-> g4, err |-> TRUE]
      ELSE [grid |-> g5, err |-> FALSE]

topple(p, S) ==
  LET r == redistribute(p, S)
  IN  IF r.err THEN r
      ELSE [grid |-> zero_border(r.grid, np_rows(p.grid), np_cols(p.grid)), err |-> FALSE]

\* Mutant of is_empty: `not self.grid.all()`.
is_empty_all(g) == \E c \in DOMAIN g : g[c] = 0

\* `not self.grid.any()`
is_empty(g) == ~np_any(g)

\* Mutant of unstable: `np.max(self.grid) >= self.max_grains - 1`.
unstable_early(p) == np_max(p.grid) >= p.max_grains - 1

\* Mutant of unstable: `np.max(self.grid) > self.max_grains`.
unstable_strict(p) == np_max(p.grid) > p.max_grains

\* `np.max(self.grid) >= self.max_grains`
unstable(p) == np_max(p.grid) >= p.max_grains

\* Mutant of while_test: the loop of DirectMode also stops at the iteration limit.
while_test_limited(p, n_iter) == unstable(p) /\ n_iter < p.max_iterations

\* The test of the while loop of DirectMode (line 110), n_iter passes done.
while_test(p, n_iter) == unstable(p)

(***************************************************************************)
(* State.                                                                  *)
(***************************************************************************)
Self == piles[self]

Grid == piles[self].grid

InitCommon ==
  /\ self = "a"
  /\ pc = "new"
  /\ i = 0
  /\ iterations = 0
  /\ runs = [o \in Names |-> <<>>]
  /\ sums = {}
  /\ call = <<>>

\* Iteration limits the constructor is given.
Timesteps == {0, 1, MaxTimesteps}

\* Sandpile(height=.., width=.., grains=.., max_timesteps=..)
Init ==
  /\ InitCommon
  /\ \E s \in Shapes, t \in Thresholds, n \in Timesteps :
       piles = [o \in Names |-> IF o = "a" THEN Sandpile(s[1], s[2], t, n) ELSE DefaultPile]

(***************************************************************************)
(* set_pile(x, y, value)                                                   *)
(***************************************************************************)
\* numpy indexing of an axis of length n: k in -n .. n-1 addresses an element
\* (a negative k counts from the end), any other k raises IndexError.
np_in_range(k, n) == (0 - n) <= k /\ k < n

np_index(k, n) == IF k < 0 THEN k + n ELSE k

\* self.grid[x, y] = value
set_pile(p, x, y, value) ==
  LET h == np_rows(p.grid)
      w == np_cols(p.grid)
  IN  IF np_in_range(x, h) /\ np_in_range(y, w)
      THEN [grid |-> [p.grid EXCEPT ![<<np_index(x, h), np_index(y, w)>>] = value],
            err |-> FALSE]
      ELSE [grid |-> p.grid, err |-> TRUE]

\* The indices a caller passes for an axis of length n: inside, the negative
\* index -1, and n, one beyond the end.
SetIndices(n) == (0 - 1) .. n

NonZero(g) == {d \in DOMAIN g : g[d] # 0}

\* Called before run, at most MaxSets times, each time on another cell; an
\* IndexError ends the program ("set_error").
SetPile ==
  /\ pc = "new"
  /\ Cardinality(NonZero(Grid)) < MaxSets
  /\ \E x \in SetIndices(Self.height), y \in SetIndices(Self.width), v \in 1 .. MaxValue :
       LET r == set_pile(Self, x, y, v)
       IN  /\ r.err \/ Cardinality(NonZero(r.grid)) > Cardinality(NonZero(Grid))
           /\ piles' = [piles EXCEPT ![self].grid = r.grid]
           /\ pc' = IF r.err THEN "set_error" ELSE "new"
           /\ call' = <<"set_pile", x, y, v>>
  /\ UNCHANGED <<self, i, iterations, runs, sums>>

(***************************************************************************)
(* run()                                                                   *)
(***************************************************************************)
run_enter(o) ==
  /\ self' = o
  /\ call' = IF o = "result" THEN <<"add">> ELSE <<"run">>
  /\ iterations' = 0
  /\ i' = 0
  /\ IF is_empty(piles'[o].grid)
     THEN pc' = "for" /\ runs' = [runs EXCEPT ![o] = Append(@, "automatic")]
     ELSE pc' = "while" /\ runs' = [runs EXCEPT ![o] = Append(@, "direct")]

RunStart ==
  /\ pc \in {"new", "done"}
  /\ Len(runs[self]) < MaxRuns
  /\ UNCHANGED <<piles, sums>>
  /\ run_enter(self)

\* A run whose limit is beyond MaxTimesteps is followed for MaxDrive passes.
DriveLimit(p) == IF p.max_iterations > MaxTimesteps THEN MaxDrive ELSE p.max_iterations

\* One pass of the for loop up to the test of line 91.
AutoDrop ==
  /\ pc = "for"
  /\ i < Self.max_iterations
  /\ i < DriveLimit(Self)
  /\ \E rand_x \in 0 .. (Self.width - 1), rand_y \in 0 .. (Self.height - 1) :
       IF <<rand_x, rand_y>> \notin DOMAIN Grid
       THEN /\ pc' = "drop_error"
            /\ UNCHANGED <<piles, i, iterations>>
       ELSE LET p == [Self EXCEPT !.grid[<<rand_x, rand_y>>] = @ + 1]
            IN  /\ piles' = [piles EXCEPT ![self] = p]
                /\ IF unstable(p)
                   THEN pc' = "inner" /\ UNCHANGED <<i, iterations>>
                   ELSE pc' = "for" /\ i' = i + 1 /\ iterations' = iterations + 1
  /\ UNCHANGED <<self, runs, sums, call>>

\* One pass of the inner while loop (lines 92-94), and line 95 when it ends.
AutoTopple ==
  /\ pc = "inner"
  /\ LET r == topple(Self, np_where(Grid, Self.max_grains))
         p == [Self EXCEPT !.grid = r.grid]
     IN  /\ piles' = [piles EXCEPT ![self] = p]
         /\ IF r.err
            THEN pc' = "topple_error" /\ UNCHANGED <<i, iterations>>
            ELSE IF unstable(p)
            THEN pc' = "inner" /\ UNCHANGED <<i, iterations>>
            ELSE pc' = "for" /\ i' = i + 1 /\ iterations' = iterations + 1
  /\ UNCHANGED <<self, runs, sums, call>>

finish ==
  /\ pc' = "done"
  /\ sums' = IF self = "result" THEN sums \cup {Grid} ELSE sums
  /\ UNCHANGED <<piles, self, i, iterations, runs, call>>

AutoExit ==
  /\ pc = "for"
  /\ i >= Self.max_iterations
  /\ finish

\* One pass of the while loop of lines 110-113.
DirectTopple ==
  /\ pc = "while"
  /\ while_test(Self, iterations)
  /\ LET r == topple(Self, np_where(Grid, Self.max_grains))
     IN  /\ piles' = [piles EXCEPT ![self].grid = r.grid]
         /\ IF r.err
            THEN pc' = "topple_error" /\ UNCHANGED iterations
            ELSE pc' = "while" /\ iterations' = iterations + 1
  /\ UNCHANGED <<self, i, runs, sums, call>>

DirectExit ==
  /\ pc = "while"
  /\ ~while_test(Self, iterations)
  /\ finish

RunStep == AutoDrop \/ AutoTopple \/ AutoExit \/ DirectTopple \/ DirectExit

Next == SetPile \/ RunStart \/ AutoDrop \/ AutoTopple \/ AutoExit \/ DirectTopple \/ DirectExit

Spec == Init /\ [][Next]_vars

(***************************************************************************)
(* Sandpile(grid=..., grains=..., max_timesteps=...): the caller supplies  *)
(* the configuration (lines 32-35).  The supplied grids have a zero border *)
(* and any interior.                                                       *)
(***************************************************************************)
SuppliedGrids(h, w) ==
  {[c \in Cells(h, w) |-> IF c \in Interior(h, w) THEN f[c] ELSE 0] :
     f \in [Interior(h, w) -> 0 .. MaxGrain]}

GridTimesteps == {0, 1, DefaultMaxTimesteps}

InitSupplied(shapes) ==
  /\ InitCommon
  /\ \E s \in shapes, t \in Thresholds, n \in GridTimesteps :
       \E g \in SuppliedGrids(s[1], s[2]) :
         piles = [o \in Names |->
                    IF o = "a" THEN SandpileFromGrid(g, s[1], s[2], t, n) ELSE DefaultPile]

InitGrid == InitSupplied(GridShapes)

NextGrid == RunStart \/ AutoDrop \/ AutoTopple \/ AutoExit \/ DirectTopple \/ DirectExit

SpecGrid == InitGrid /\ [][NextGrid]_vars

\* Supplied grids as above, and the 5x5 grids with one pile in the interior
\* (where a cell has four interior neighbours).
FiveGrids ==
  {[np_zeros(5, 5) EXCEPT ![c] = v] : c \in Interior(5, 5), v \in 1 .. MaxGrain}

InitTopple ==
  \/ InitGrid
  \/ /\ InitCommon
     /\ \E t \in Thresholds, n \in GridTimesteps, g \in FiveGrids :
          piles = [o \in Names |->
                     IF o = "a" THEN SandpileFromGrid(g, 5, 5, t, n) ELSE DefaultPile]

SpecTopple == InitTopple /\ [][NextGrid]_vars

(***************************************************************************)
(* __add__: result = Sandpile(height, width); result.grid = self.grid +    *)
(* other.grid; result.run().  "a" is self, "b" is other.  The operands are *)
(* grids with at most one pile, in the interior.  run() returns nothing,   *)
(* so what the sum yields is the grid of result when its run returns.      *)
(***************************************************************************)
OperandGrids(h, w) ==
  {np_zeros(h, w)} \cup
  {[np_zeros(h, w) EXCEPT ![c] = v] : c \in Interior(h, w), v \in 1 .. MaxOperand}

OperandTimesteps == {0, 1}

InitAdd ==
  /\ InitCommon
  /\ \E s \in Shapes, t \in Thresholds, n \in OperandTimesteps :
       \E ga \in OperandGrids(s[1], s[2]), gb \in OperandGrids(s[1], s[2]) :
         piles = [o \in Names |->
                    IF o = "a" THEN SandpileFromGrid(ga, s[1], s[2], t, n)
                    ELSE IF o = "b" THEN SandpileFromGrid(gb, s[1], s[2], t, n)
                    ELSE DefaultPile]

\* numpy broadcasting: two arrays can be added when, on each axis, their lengths
\* are equal or one of them is 1; otherwise + raises ValueError.
np_broadcastable(ga, gb) ==
  /\ (np_rows(ga) = np_rows(gb) \/ np_rows(ga) = 1 \/ np_rows(gb) = 1)
  /\ (np_cols(ga) = np_cols(gb) \/ np_cols(ga) = 1 \/ np_cols(gb) = 1)

np_max2(m, n) == IF m >= n THEN m ELSE n

\* the element of g that broadcasting pairs with index c of the sum
np_stretch(g, c) ==
  g[<<IF np_rows(g) = 1 THEN 0 ELSE c[1], IF np_cols(g) = 1 THEN 0 ELSE c[2]>>]

\* self.grid + other.grid, for arrays that can be added
grid_sum(ga, gb) ==
  [c \in Cells(np_max2(np_rows(ga), np_rows(gb)), np_max2(np_cols(ga), np_cols(gb))) |->
     np_stretch(ga, c) + np_stretch(gb, c)]

\* Mutant of add_result: the sum is taken in place (self.grid += other.grid).
add_in_place(ps, r) == [ps EXCEPT !["result"] = r, !["a"].grid = r.grid]

\* result is a new object, bound to no operand (lines 148, 150)
add_result(ps, r) == [ps EXCEPT !["result"] = r]

\* a.run() or b.run(), before a sum is taken
RunOperand ==
  /\ pc \in {"new", "done"}
  /\ \E o \in {"a", "b"} :
       /\ runs[o] = <<>>
       /\ UNCHANGED <<piles, sums>>
       /\ run_enter(o)

Add ==
  /\ pc \in {"new", "done"}
  /\ Len(runs["result"]) < MaxAdds
  /\ UNCHANGED sums
  /\ IF np_broadcastable(piles["a"].grid, piles["b"].grid)
     THEN /\ piles' = add_result(piles,
                         SandpileFromGrid(grid_sum(piles["a"].grid, piles["b"].grid),
                                          piles["a"].height, piles["a"].width,
                                          DefaultGrains, DefaultMaxTimesteps))
          /\ run_enter("result")
     ELSE \* ValueError: result keeps the zeros of line 148 and is dropped
          /\ piles' = add_result(piles,
                         Sandpile(piles["a"].height, piles["a"].width,
                                  DefaultGrains, DefaultMaxTimesteps))
          /\ self' = "result"
          /\ call' = <<"add">>
          /\ pc' = "value_error"
          /\ runs' = [runs EXCEPT !["result"] = Append(@, "ValueError")]
          /\ UNCHANGED <<i, iterations>>

NextAdd == RunOperand \/ Add \/ AutoDrop \/ AutoTopple \/ AutoExit \/ DirectTopple \/ DirectExit

SpecAdd == InitAdd /\ [][NextAdd]_vars

(***************************************************************************)
(* __add__ on any two piles: the constructor checks no dimension, so the   *)
(* operands are of any shape, equal or not, each with at most one pile.    *)
(***************************************************************************)
MixShapes == {<<1, 3>>, <<2, 2>>, <<3, 3>>}

MixValues == {1, MaxMix}

MixGrids(h, w) ==
  {np_zeros(h, w)} \cup
  {[np_zeros(h, w) EXCEPT ![c] = v] : c \in Cells(h, w), v \in MixValues}

InitMix ==
  /\ InitCommon
  /\ \E sa \in MixShapes, sb \in MixShapes, t \in Thresholds, n \in OperandTimesteps :
       \E ga \in MixGrids(sa[1], sa[2]), gb \in MixGrids(sb[1], sb[2]) :
         piles = [o \in Names |->
                    IF o = "a" THEN SandpileFromGrid(ga, sa[1], sa[2], t, n)
                    ELSE IF o = "b" THEN SandpileFromGrid(gb, sb[1], sb[2], t, n)
                    ELSE DefaultPile]

SpecMix == InitMix /\ [][NextAdd]_vars

\* Supplied grids of the smaller shapes; the program, being sequential, always
\* takes the next step of a loop it is in.
InitRelax == InitSupplied(Shapes)

FairRelax ==
  /\ InitRelax
  /\ [][NextGrid]_vars
  /\ WF_vars(DirectTopple)
  /\ WF_vars(DirectExit)
  /\ WF_vars(AutoTopple)

(***************************************************************************)
(* Properties.                                                             *)
(***************************************************************************)
BorderZero(p) == \A c \in Border(p.height, p.width) : p.grid[c] = 0

BorderSum(g, h, w) == SumOver(g, Border(h, w))

Stable(p) == \A c \in DOMAIN p.grid : p.grid[c] < p.max_grains

AllZero(g) == \A c \in DOMAIN g : g[c] = 0

LastRun(o) == runs[o][Len(runs[o])]

\* run has returned at least once on the pile
Relaxed == Len(runs[self]) >= 2 \/ (Len(runs[self]) = 1 /\ pc = "done")

\* run has not yet changed the grid it was called on
AtRunStart ==
  \/ pc \in {"new", "done"}
  \/ (pc = "while" /\ iterations = 0)
  \/ (pc = "for" /\ i = 0)

\* C1: all the sums taken of two piles end in the same grid, whether or not
\* a.run() or b.run() relaxed an operand before the sum was taken (the operands
\* being configurations with a pile, so that their runs are relaxations).
C1_SumCommutesWithRelaxation ==
  (\A o \in {"a", "b"} : \A k \in 1 .. Len(runs[o]) : runs[o][k] = "direct")
    => Cardinality(sums) <= 1

\* C2: the run a sum starts on result is a relaxation of a + b, also when a + b
\* is all zero: it is never in the for loop of AutomaticMode, no grain is added
\* to the sum, and the grid it returns is stable under the operands' threshold.
C2_SumIsRelaxationOfSum ==
  self = "result" =>
    /\ pc \in {"while", "done"}
    /\ np_sum(Grid) <= np_sum(piles["a"].grid) + np_sum(piles["b"].grid)
    /\ (pc = "done" => np_max(Grid) < piles["a"].max_grains)

\* C3: the border is zero after every drive step of AutomaticMode (started on
\* the all-zero grid), after the run, and after every relaxation pass.
C3_BorderZeroBetweenOperations ==
  /\ (runs[self] = <<"automatic">> /\ pc \in {"for", "done"}) => BorderZero(Self)
  /\ (runs[self] # <<>> /\ pc = "while" /\ iterations >= 1) => BorderZero(Self)

\* C4 as claimed: once run has returned on a supplied configuration, a later
\* run changes no cell of the grid it is called on (no step from a position
\* where the later run has changed nothing yet changes a cell), also when the
\* first run left an all-zero grid.
C4_RunIdempotent ==
  [][(Relaxed /\ AtRunStart) => Grid' = Grid]_vars

\* C4 as amended: once run has returned on a supplied configuration and left a
\* grid with a nonzero cell (or the iteration limit is 0), a later run changes
\* no cell of the grid it is called on.
C4_RunIdempotentNonEmpty ==
  [][(Relaxed /\ AtRunStart /\ (np_any(Grid) \/ Self.max_iterations = 0))
       => Grid' = Grid]_vars

C4_Witness ==
  /\ runs["a"] = <<"direct", "direct">>
  /\ pc = "done"
  /\ Self.height = 4 /\ Self.width = 4
  /\ Cardinality({c \in DOMAIN Grid : Grid[c] # 0}) >= 3

\* C5 as claimed: run called on a grid whose cells are all below the threshold
\* changes no cell, border cells included.
C5_StableRunIsIdentity ==
  [][(AtRunStart /\ Stable(Self) /\ pc' # "new") => Grid' = Grid]_vars

\* C5 as amended: run called on a grid whose cells are all below the threshold
\* and that has a nonzero cell (or with an iteration limit of 0) changes no
\* cell, border cells included.
C5_StableNonEmptyRunIsIdentity ==
  [][(AtRunStart /\ Stable(Self) /\ pc' # "new"
        /\ (np_any(Grid) \/ Self.max_iterations = 0)) => Grid' = Grid]_vars

C5_Witness ==
  /\ pc = "done"
  /\ runs["a"] = <<"direct">>
  /\ iterations = 0
  /\ \E c \in Border(Self.height, Self.width) : Grid[c] = Self.max_grains - 1

\* C6: a call of topple on a grid with a zero border loses exactly the grains
\* that landed in border cells: total before = total after + the border's total
\* before the border is zeroed.
C6_ToppleConservesGrains ==
  [][(pc \in {"while", "inner"} /\ pc' \in {"while", "inner", "for"} /\ BorderZero(Self))
       => np_sum(Grid) = np_sum(Grid')
            + BorderSum(redistribute(Self, np_where(Grid, Self.max_grains)).grid,
                        Self.height, Self.width)]_vars

\* C7: on a grid with a zero border the relaxation loop (of DirectMode, and of
\* a drive step) reaches a grid with every cell below the threshold and stops;
\* it stops only then, and then it does stop.
C7_RelaxationTerminates ==
  /\ (pc = "while" /\ BorderZero(Self)) ~> (pc = "done" /\ Stable(Self))
  /\ (pc = "inner" /\ BorderZero(Self)) ~> (pc = "for" /\ Stable(Self))
  /\ [][(pc = "while" /\ pc' = "done") => Stable(Self)]_vars
  /\ [][(pc = "while" /\ Stable(Self)) => (pc' = "done" /\ Grid' = Grid)]_vars
  /\ [][(pc = "inner" /\ pc' = "for") => Stable(Self')]_vars

C7_Witness ==
  /\ pc = "done"
  /\ runs["a"] = <<"direct">>
  /\ iterations >= 2
  /\ Stable(Self)
  /\ BorderZero(Self)

\* C8: run enters AutomaticMode exactly when every cell is zero; in DirectMode
\* a step never adds a grain, never enters the for loop, and the loop ends only
\* on a stable grid, whatever the iteration limit.
C8_ModeSelection ==
  [][/\ (pc \in {"new", "done"} /\ pc' \in {"for", "while"})
          => (pc' = "for" <=> AllZero(Grid))
     /\ (pc \in {"new", "done"} /\ runs' # runs)
          => pc' \in {"for", "while"}
     /\ pc = "while"
          => /\ pc' \in {"while", "done", "topple_error"}
             /\ np_sum(Grid') <= np_sum(Grid)
             /\ (pc' = "done" => Stable(Self))
             /\ (~Stable(Self) => Grid' # Grid)]_vars

C8_Witness ==
  /\ pc = "done"
  /\ runs["a"] = <<"direct">>
  /\ iterations >= 1
  /\ Self.max_iterations = 0

\* C9: a run in AutomaticMode ends with the loop index and the iteration counter
\* at the iteration limit n, the counter counting the drive steps done so far;
\* with n = 0 the grid stays all zero.
C9_AutoRunsExactlyN ==
  (runs[self] # <<>> /\ LastRun(self) = "automatic") =>
    /\ iterations = i
    /\ i <= Self.max_iterations
    /\ (pc \in {"done", "drop_error", "topple_error"} =>
          (i = Self.max_iterations /\ iterations = Self.max_iterations))
    /\ (Self.max_iterations = 0 => AllZero(Grid))

\* C10: a grain drop never raises IndexError, and at every drive step every
\* cell of the grid can be the one that gets the grain.
C10_DropInsideGrid ==
  /\ pc # "drop_error"
  /\ (pc = "for" /\ i < Self.max_iterations /\ i < DriveLimit(Self))
       => \A c \in DOMAIN Grid :
            \E rand_x \in 0 .. (Self.width - 1), rand_y \in 0 .. (Self.height - 1) :
              <<rand_x, rand_y>> = c

\* C11: a sum of two piles whose heights or widths differ fails with the report
\* of a size mismatch: no run is started on a result, and no sum, partial or
\* whole, is produced.
C11_MismatchRejected ==
  [][(runs'["result"] # runs["result"]
        /\ (piles["a"].height # piles["b"].height \/ piles["a"].width # piles["b"].width))
       => (pc' = "value_error" /\ AllZero(piles'["result"].grid) /\ sums' = sums)]_vars

\* C12: no pile of height or width below 3 is ever constructed, so every grid
\* that run, topple or a sum operates on has an interior cell.
C12_MinimumFootprint ==
  pc # "new" =>
    \A o \in Names :
      /\ piles[o].height >= 3
      /\ piles[o].width >= 3
      /\ Interior(np_rows(piles[o].grid), np_cols(piles[o].grid)) # {}

\* C13: a call set_pile(x, y, v) with x in 0 .. height-1 and y in 0 .. width-1
\* changes cell (x, y) to v and no other cell; with any other x or y (negative
\* ones included) it raises the out-of-bounds error and changes no cell.
C13_SetOutOfBoundsRejected ==
  [][(pc = "new" /\ call' # <<>> /\ call'[1] = "set_pile" /\ vars' # vars)
       => LET x == call'[2]
              y == call'[3]
              v == call'[4]
          IN  IF x \in 0 .. (Self.height - 1) /\ y \in 0 .. (Self.width - 1)
              THEN pc' = "new" /\ Grid' = [Grid EXCEPT ![<<x, y>>] = v]
              ELSE pc' = "set_error" /\ Grid' = Grid]_vars

\* the coordinates np.where hands to topple
Snapshot == np_where(Grid, Self.max_grains)

\* C14: started on a grid with a zero border, a run passes only interior cells
\* to topple (1 <= row <= height-2, 1 <= col <= width-2), in AutomaticMode and
\* in DirectMode, and no call of topple raises an index error.
C14_OnlyInteriorToppled ==
  /\ pc # "topple_error"
  /\ (pc = "inner" \/ (pc = "while" /\ unstable(Self)))
       => \A c \in Snapshot :
            /\ 1 <= c[1] /\ c[1] <= Self.height - 2
            /\ 1 <= c[2] /\ c[2] <= Self.width - 2

\* orthogonal neighbours
Adjacent(c, d) ==
  \/ (c[1] = d[1] /\ (c[2] = d[2] + 1 \/ d[2] = c[2] + 1))
  \/ (c[2] = d[2] /\ (c[1] = d[1] + 1 \/ d[1] = c[1] + 1))

Apart(S) == \A c \in S, d \in S : ~Adjacent(c, d)

\* The single-cell topple rule applied to interior cell c of grid g, threshold
\* t: the cell keeps v mod t, each orthogonal neighbour gets v div t, then the
\* border is zeroed.
ToppleOne(g, t, c) ==
  LET v == g[c]
      g1 == [d \in DOMAIN g |->
               IF d = c THEN v % t
               ELSE IF Adjacent(c, d) THEN g[d] + (v \div t)
               ELSE g[d]]
  IN  [d \in DOMAIN g |-> IF d \in Border(np_rows(g), np_cols(g)) THEN 0 ELSE g1[d]]

\* the first coordinate of S in row-major order, the order of np.where
RowMajorFirst(S) ==
  CHOOSE c \in S : \A d \in S : c[1] < d[1] \/ (c[1] = d[1] /\ c[2] <= d[2])

\* the single-cell rule applied to the cells of S one after another
RECURSIVE ToppleEach(_, _, _)
ToppleEach(g, t, S) ==
  IF S = {} THEN g
  ELSE LET c == RowMajorFirst(S) IN ToppleEach(ToppleOne(g, t, c), t, S \ {c})

\* what the snapshot cells next to d give to d, by their values at the snapshot
Received(d) ==
  SumOver([c \in DOMAIN Grid |-> Grid[c] \div Self.max_grains],
          {c \in Snapshot : Adjacent(c, d)})

\* a relaxation pass of DirectMode that returned
DirectPass == pc = "while" /\ pc' = "while" /\ iterations' = iterations + 1

\* C15 as claimed: the grid after a relaxation pass is the grid obtained by
\* applying the single-cell topple rule to the cells of the snapshot one after
\* another (in the order of the snapshot), whatever cells the snapshot holds.
C15_PassIsOneAfterAnother ==
  [][DirectPass => Grid' = ToppleEach(Grid, Self.max_grains, Snapshot)]_vars

\* C15 as amended: in a relaxation pass every cell of the snapshot is toppled
\* once with the value it held at the snapshot (it keeps v mod T plus what its
\* snapshot neighbours give), a cell outside the snapshot only receives, also
\* when it reaches T in the pass; and, on a grid with a zero border, the grid
\* after the pass is the one the single-cell rule gives applied one after
\* another when no two cells of the snapshot are orthogonal neighbours.
C15_PassIsSimultaneous ==
  [][DirectPass =>
       /\ \A d \in Interior(Self.height, Self.width) :
            Grid'[d] = (IF d \in Snapshot THEN Grid[d] % Self.max_grains ELSE Grid[d])
                         + Received(d)
       /\ \A d \in Border(Self.height, Self.width) : Grid'[d] = 0
       /\ (BorderZero(Self) /\ Apart(Snapshot))
            => Grid' = ToppleEach(Grid, Self.max_grains, Snapshot)]_vars

C15_Witness ==
  /\ pc = "while"
  /\ iterations >= 1
  /\ Cardinality(Snapshot) >= 2
  /\ Apart(Snapshot)
  /\ BorderZero(Self)
  /\ \E d \in Interior(Self.height, Self.width) \ Snapshot : Received(d) >= 1

\* C16: a call of topple on a single interior cell c holding v leaves c at
\* v mod T, adds v div T to each of the four orthogonal neighbours that are
\* interior cells, changes no other interior cell and leaves every border cell
\* at 0; on a 3x3 grid with T = 4 and centre 4 the grid becomes all zero, on a
\* 5x5 grid with T = 4 and only the centre at 4 the centre becomes 0, its four
\* neighbours 1 and the total stays 4.
C16_ToppleRule ==
  [][\A c \in Interior(Self.height, Self.width) :
       (pc \in {"while", "inner"} /\ Snapshot = {c} /\ vars' # vars)
       => LET v == Grid[c]
              T == Self.max_grains
              around == {<<c[1] - 1, c[2]>>, <<c[1] + 1, c[2]>>,
                         <<c[1], c[2] - 1>>, <<c[1], c[2] + 1>>}
          IN  /\ pc' # "topple_error"
              /\ Grid'[c] = v % T
              /\ \A d \in Interior(Self.height, Self.width) \ {c} :
                   Grid'[d] = IF d \in around THEN Grid[d] + (v \div T) ELSE Grid[d]
              /\ \A d \in Border(Self.height, Self.width) : Grid'[d] = 0
              /\ (Self.height = 3 /\ Self.width = 3 /\ T = 4 /\ v = 4) => AllZero(Grid')
              /\ (Self.height = 5 /\ c = <<2, 2>> /\ T = 4 /\ v = 4 /\ np_sum(Grid) = 4)
                   => /\ Grid'[c] = 0
                      /\ \A d \in around : Grid'[d] = 1
                      /\ np_sum(Grid') = 4]_vars

C16_Witness ==
  /\ pc = "done"
  /\ iterations = 1
  /\ Self.height = 5
  /\ Self.max_grains = 4
  /\ Grid[<<2, 2>>] = 0
  /\ Grid[<<1, 2>>] = 1 /\ Grid[<<3, 2>>] = 1 /\ Grid[<<2, 1>>] = 1 /\ Grid[<<2, 3>>] = 1
  /\ np_sum(Grid) = 4

\* C17: in AutomaticMode every cell holds fewer than T grains at the end of
\* every drive step, and so in the grid a run that reached its iteration limit
\* returns.
C17_StableAfterDriveStep ==
  (runs[self] # <<>> /\ LastRun(self) = "automatic" /\ pc \in {"for", "done"})
    => \A c \in DOMAIN Grid : Grid[c] < Self.max_grains

C17_Witness ==
  /\ pc = "done"
  /\ runs[self] = <<"automatic">>
  /\ Self.max_iterations = MaxTimesteps
  /\ iterations = Self.max_iterations
  /\ np_sum(Grid) < iterations
  /\ np_sum(Grid) >= 1

\* the relaxation of pile p under its own threshold: passes until no cell holds
\* the threshold
RECURSIVE relax(_)
relax(p) ==
  IF ~unstable(p) THEN p.grid
  ELSE LET r == topple(p, np_where(p.grid, p.max_grains))
       IN  IF r.err THEN r.grid ELSE relax([p EXCEPT !.grid = r.grid])

\* C18: the run a sum starts on result relaxes it under the threshold T the
\* operands were built with, whatever T is: the grid it returns has every cell
\* below T and is the relaxation of a + b under T.
C18_SumRelaxedUnderOperandThreshold ==
  (self = "result" /\ pc = "done") =>
    /\ \A c \in DOMAIN Grid : Grid[c] < piles["a"].max_grains
    /\ Grid = relax(SandpileFromGrid(grid_sum(piles["a"].grid, piles["b"].grid),
                                     piles["a"].height, piles["a"].width,
                                     piles["a"].max_grains, piles["a"].max_iterations))

\* C19: every cell of every grid holds a non-negative number of grains, after
\* any sequence of grain drops, topples, relaxation passes and sums started on
\* grids of non-negative numbers with a positive threshold.
C19_NonNegative ==
  \A o \in Names : \A c \in DOMAIN piles[o].grid : piles[o].grid[c] >= 0

C19_Witness ==
  /\ self = "result"
  /\ pc = "done"
  /\ iterations >= 1
  /\ np_any(Grid)
  /\ runs["a"] = <<"automatic">>
  /\ np_any(piles["a"].grid)

\* C20: a sum never modifies its operands: the step that takes the sum of a and
\* b (with or without ValueError) and every step of the run it starts on result
\* leave the grids, dimensions and thresholds of a and b as they were.
C20_SumLeavesOperands ==
  [][self' = "result" => (piles'["a"] = piles["a"] /\ piles'["b"] = piles["b"])]_vars

C20_Witness ==
  /\ self = "result"
  /\ pc = "done"
  /\ iterations >= 1
  /\ Grid # piles["a"].grid
  /\ np_any(piles["a"].grid)
  /\ np_any(piles["b"].grid)
  /\ runs["a"] = <<>> /\ runs["b"] = <<>>

====
